---- MODULE Spec2Model ----
(***************************************************************************)
(* Model of wrapper.py: class Wrapper around a googleapiclient Resource.   *)
(* Wrapper.yield_all / Wrapper._yield_all are Python generators; they are  *)
(* modelled as a state machine whose control position (pc) only advances   *)
(* between a consumer pull (next()) and the following yield / end / raise. *)
(* Spec is one invocation (run 1) of yield_all.  SpecPair adds a second     *)
(* invocation on the same wrapper with the same keyword arguments, the same *)
(* remote and a consumer that pulls as often as the first one did; it       *)
(* starts after the first has returned control for good (the program is     *)
(* single-threaded).  SpecRepeat is two invocations of list_all, one after  *)
(* the other.                                                               *)
(***************************************************************************)
EXTENDS Integers, Sequences, FiniteSets, TLC

\* ------------------------------------------------------------------ bounds
MaxIds == 101          \* longest `id` list the caller passes
MaxItems == 2          \* items the remote puts in a page that is not empty
MaxExtraPages == 2     \* pages with a continuation the remote serves in all

\* --------------------------------------------------------- program constants
Limit == 50            \* ids per request / page size (wrapper.py:55,62,93,100,107)
NotFound == 404        \* wrapper.py:71

\* The invocations of yield_all: a first one, and a second one that repeats it.
Runs == {1, 2}

Min(a, b) == IF a < b THEN a ELSE b

\* math.ceil(a / b) for a >= 0, b > 0
Ceil(a, b) == (a + b - 1) \div b

\* ------------------------------------------------------------- the caller
\* The caller's `id` lists: n distinct identifiers, in order.
Ids(n) == [k \in 1..n |-> k]

\* Lengths of `id` lists the caller passes: those up to MaxIds that lie at
\* or next to a multiple of Limit, or leave the remainder 37.
IdLens == {n \in 0..MaxIds : n % Limit \in {0, 1, 37, Limit - 1}}

\* Keyword arguments of the caller (progress_bar and desc are named
\* parameters of yield_all and never part of kwargs).
KwargsSet ==
    {[part |-> "snippet"], [part |-> "snippet", maxResults |-> 10]}
    \cup {[part |-> "snippet", id |-> Ids(n)] : n \in IdLens}

\* "id" in kwargs
HasId(kw) == "id" \in DOMAIN kw

\* kwargs.update(name=value) / f(**kwargs, name=value)
DictSet(kw, name, value) ==
    [k \in (DOMAIN kw) \cup {name} |-> IF k = name THEN value ELSE kw[k]]

\* kwargs.pop(name): the dict that remains
DictPop(kw, name) == [k \in (DOMAIN kw) \ {name} |-> kw[k]]

\* Mutant of NeedsSplit: the comparison is >= instead of >.
NeedsSplitAtLimit(kw) == HasId(kw) /\ Len(kw.id) >= Limit

\* wrapper.py:93  "id" in kwargs and len(kwargs["id"]) > 50
NeedsSplit(kw) == HasId(kw) /\ Len(kw.id) > Limit

\* Mutant of Slice: the slice runs one identifier too far (ids[i : i + 51]).
SliceTooLong(ids, i) == SubSeq(ids, i + 1, Min(i + Limit + 1, Len(ids)))

\* wrapper.py:107  ids[i : i + 50]   (i is 0-based)
Slice(ids, i) == SubSeq(ids, i + 1, Min(i + Limit, Len(ids)))

\* Mutant of UpdateMaxResults: the page size is set together with a page
\* token parameter of the core's own.
UpdateMaxResultsAndToken(kw) ==
    DictSet(DictSet(kw, "maxResults", Limit), "pageToken", "")

\* wrapper.py:55  kwargs.update(maxResults=50)
UpdateMaxResults(kw) == DictSet(kw, "maxResults", Limit)

\* ------------------------------------------------------------- the remote
\* Statuses of a page request: 200, 404 (HttpError), 500 (any other error)
Statuses == {200, NotFound, 500}

\* The numbers of items the remote puts in a page: none, or MaxItems.
ItemCounts == {0, MaxItems}

\* The items the remote puts in page p of batch b when it holds n items.
PageItems(b, p, n) == [k \in 1..n |-> <<b, p, k>>]

\* pageInfo.totalResults of a page, for a remote with full earlier pages.
TotalResults(p, n, more) ==
    IF more THEN Limit * p + 1 ELSE Limit * (p - 1) + n

\* Mutant of Implements: hasattr only, callable() is not asked.
ImplementsHasattrOnly(resource, name) == resource[name] # "missing"

\* wrapper.py:36-41  the capability probe of __init__
Implements(resource, name) == resource[name] = "callable"

AttrKinds == {"missing", "noncallable", "callable"}

VARIABLES
    resource,      \* the object handed to Wrapper(): kind of .list / .list_next
    wrapper,       \* "none" | "ok" (self._resource set) | "ValueError"
    kwargs,        \* the caller's keyword arguments (same for every run)
    served,        \* the remote: the answers given so far, one per (batch, page)
    pc,            \* per run: control position of the generator
    pending,       \* per run: the consumer is inside next()
    pulls,         \* per run: number of next() calls of the consumer
    listing,       \* per run: the consumer is list() inside list_all
    returned,      \* per run: <<>> or <<the list list_all returned>>
    progress_bar,  \* per run: argument progress_bar of yield_all
    okw,           \* per run: kwargs of the yield_all frame
    ids,           \* per run: ids of the yield_all frame (split path)
    it,            \* per run: iterations of the trange loop started so far
    i,             \* per run: loop variable of trange (0-based offset)
    tbar,          \* per run: the trange bar [disable, total, n]
    ikw,           \* per run: kwargs of the _yield_all frame
    ipb,           \* per run: progress_bar of the _yield_all frame
    req,           \* per run: <<>> for None, else <<request>>
    res,           \* per run: <<>> or <<page>>, the last response
    j,             \* per run: position of the for loop over res["items"]
    pbar,          \* per run: the tqdm bar of _yield_all [disable, total, n]
    loops,         \* per run: number of calls of _yield_all
    calls,         \* per run: the calls made on the resource, in order
    out,           \* per run: the items the consumer received, in order
    ending         \* per run: "none" | "normal" | "error"

vars == <<resource, wrapper, kwargs, served, pc, pending, pulls, listing,
          returned, progress_bar,
          okw, ids, it, i, tbar, ikw, ipb, req, res, j, pbar, loops, calls, out, ending>>

genvars == <<pc, pending, pulls, listing, returned, progress_bar, okw, ids, it, i, tbar, ikw, ipb, req, res,
             j, pbar, loops, calls, out, ending>>

NoBar == [disable |-> TRUE, total |-> -1, n |-> 0]

Init ==
    /\ resource = [list |-> "missing", list_next |-> "missing"]
    /\ wrapper = "none"
    /\ kwargs \in KwargsSet
    /\ served = {}
    /\ pc = [r \in Runs |-> "none"]
    /\ pending = [r \in Runs |-> FALSE]
    /\ pulls = [r \in Runs |-> 0]
    /\ listing = [r \in Runs |-> FALSE]
    /\ returned = [r \in Runs |-> <<>>]
    /\ progress_bar = [r \in Runs |-> FALSE]
    /\ okw = [r \in Runs |-> kwargs]
    /\ ids = [r \in Runs |-> <<>>]
    /\ it = [r \in Runs |-> 0]
    /\ i = [r \in Runs |-> 0]
    /\ tbar = [r \in Runs |-> NoBar]
    /\ ikw = [r \in Runs |-> kwargs]
    /\ ipb = [r \in Runs |-> FALSE]
    /\ req = [r \in Runs |-> <<>>]
    /\ res = [r \in Runs |-> <<>>]
    /\ j = [r \in Runs |-> 0]
    /\ pbar = [r \in Runs |-> NoBar]
    /\ loops = [r \in Runs |-> 0]
    /\ calls = [r \in Runs |-> <<>>]
    /\ out = [r \in Runs |-> <<>>]
    /\ ending = [r \in Runs |-> "none"]

\* Wrapper.__init__(resource)
Construct ==
    /\ wrapper = "none"
    /\ \E l \in AttrKinds, ln \in AttrKinds :
         /\ resource' = [list |-> l, list_next |-> ln]
         /\ wrapper' = IF Implements(resource', "list")
                          /\ Implements(resource', "list_next")
                       THEN "ok" ELSE "ValueError"
    /\ UNCHANGED <<kwargs, served>>
    /\ UNCHANGED genvars

\* A run is over: the generator ended, raised, or was closed by the consumer.
Finished(r) ==
    /\ pc[r] \in {"done", "raised", "closed"}
    /\ (listing[r] /\ pc[r] = "done") => returned[r] # <<>>

\* Mutant of CallYieldAll: the body starts to run at the call, not at the
\* first next() (a plain function that builds its request eagerly).
CallYieldAllEager(r) ==
    /\ wrapper = "ok"
    /\ pc[r] = "none"
    /\ \A q \in Runs : q < r => Finished(q)
    /\ \E pb \in BOOLEAN : progress_bar' = [progress_bar EXCEPT ![r] = pb]
    /\ pc' = [pc EXCEPT ![r] = "dispatch"]
    /\ okw' = [okw EXCEPT ![r] = kwargs]
    /\ UNCHANGED <<listing, returned, resource, wrapper, pulls, kwargs, served, pending, ids, it, i, tbar,
                   ikw, ipb, req, res, j, pbar, loops, calls, out, ending>>

\* gen = wrapper.yield_all(progress_bar=pb, **kwargs): creates the generator,
\* no line of the body runs before the first next().
CallYieldAll(r) ==
    /\ wrapper = "ok"
    /\ pc[r] = "none"
    /\ \A q \in Runs : q < r => Finished(q) /\ ~listing[q]
    /\ \E pb \in BOOLEAN : progress_bar' = [progress_bar EXCEPT ![r] = pb]
    /\ pc' = [pc EXCEPT ![r] = "created"]
    /\ okw' = [okw EXCEPT ![r] = kwargs]
    /\ UNCHANGED <<listing, returned, resource, wrapper, pulls, kwargs, served, pending, ids, it, i, tbar,
                   ikw, ipb, req, res, j, pbar, loops, calls, out, ending>>

\* The list the constructor list() builds from the items it was handed.
ListOf(items) == [k \in 1..Len(items) |-> items[k]]

\* wrapper.py:128  list_all: list(self.yield_all(**kwargs)) creates the
\* generator; list() is its consumer and pulls until the generator ends.
CallListAll(r) ==
    /\ wrapper = "ok"
    /\ pc[r] = "none"
    /\ \A q \in Runs : q < r => Finished(q) /\ listing[q]
    /\ \E pb \in BOOLEAN : progress_bar' = [progress_bar EXCEPT ![r] = pb]
    /\ pc' = [pc EXCEPT ![r] = "created"]
    /\ okw' = [okw EXCEPT ![r] = kwargs]
    /\ listing' = [listing EXCEPT ![r] = TRUE]
    /\ UNCHANGED <<returned, resource, wrapper, pulls, kwargs, served, pending, ids,
                   it, i, tbar, ikw, ipb, req, res, j, pbar, loops, calls, out,
                   ending>>

\* wrapper.py:128  list() got StopIteration: list_all returns the list of
\* the items it was handed.  (When the generator raises, list_all raises.)
ListAllReturn(r) ==
    /\ listing[r]
    /\ pc[r] = "done"
    /\ returned[r] = <<>>
    /\ returned' = [returned EXCEPT ![r] = <<ListOf(out[r])>>]
    /\ UNCHANGED <<listing, resource, wrapper, kwargs, served, pc, pending, pulls,
                   progress_bar, okw, ids, it, i, tbar, ikw, ipb, req, res, j,
                   pbar, loops, calls, out, ending>>

\* next(gen) by the consumer: resumes the generator where it is suspended.
\* The second consumer of a generator pulls as often as the first one did;
\* list() pulls until the generator ends.
Pull(r) ==
    /\ pc[r] \in {"created", "suspended"}
    /\ ~pending[r]
    /\ (r > 1 /\ ~listing[r]) => pulls[r] < pulls[r - 1]
    /\ pending' = [pending EXCEPT ![r] = TRUE]
    /\ pulls' = [pulls EXCEPT ![r] = pulls[r] + 1]
    /\ pc' = [pc EXCEPT ![r] = IF pc[r] = "created" THEN "dispatch" ELSE "items"]
    /\ UNCHANGED <<listing, returned, resource, wrapper, kwargs, served, progress_bar, okw, ids, it, i,
                   tbar, ikw, ipb, req, res, j, pbar, loops, calls, out, ending>>

\* The consumer stops pulling (break in main.py:78-81): the generator is
\* closed where it is suspended and never resumed.
Stop(r) ==
    /\ pc[r] \in {"created", "suspended"}
    /\ ~pending[r]
    /\ ~listing[r]
    /\ r > 1 => pulls[r] = pulls[r - 1] /\ pc[r - 1] = "closed"
    /\ pc' = [pc EXCEPT ![r] = "closed"]
    /\ UNCHANGED <<listing, returned, resource, wrapper, pulls, kwargs, served, pending, progress_bar,
                   okw, ids, it, i, tbar, ikw, ipb, req, res, j, pbar, loops, calls,
                   out, ending>>

\* Mutant of InnerKwargs: an enabled progress_bar is not bound to the named
\* parameter and travels on inside kwargs.
InnerKwargsLeak(kw, pb) == IF pb THEN DictSet(kw, "progress_bar", pb) ELSE kw

\* wrapper.py:46  the binding of _yield_all's parameters: progress_bar and
\* desc are named parameters, everything else is collected in kwargs.
InnerKwargs(kw, pb) == kw

\* len(range(0, n, step)), the total of trange(0, n, step)
RangeLen(n, step) == Ceil(n, step)

\* Mutant of Trange: the offsets in descending order.
TrangeReversed(n, step) ==
    [k \in 1..RangeLen(n, step) |-> step * (RangeLen(n, step) - k)]

\* wrapper.py:97-100  the values of trange(0, n, step), in order
Trange(n, step) == [k \in 1..RangeLen(n, step) |-> step * (k - 1)]

\* tqdm.update(): a disabled bar ignores it
BarUpdate(bar) == IF bar.disable THEN bar ELSE [bar EXCEPT !.n = bar.n + 1]

\* The batch the current _yield_all call is about (1 when there is no split).
Batch(r) == (i[r] \div Limit) + 1

\* yield_all runs its splitting branch (wrapper.py:96-107)
InSplit(r) == ids[r] # <<>>

\* Mutant of Dispatch: kwargs is the caller's own dict, not a copy, and
\* pop("id") removes the identifiers from it for good.
DispatchPopsCaller(r) ==
    /\ pc[r] = "dispatch"
    /\ IF NeedsSplit(okw[r])
       THEN /\ ids' = [ids EXCEPT ![r] = okw[r].id]
            /\ okw' = [okw EXCEPT ![r] = DictPop(okw[r], "id")]
            /\ kwargs' = DictPop(kwargs, "id")
            /\ it' = [it EXCEPT ![r] = 0]
            /\ tbar' = [tbar EXCEPT ![r] =
                          [disable |-> ~progress_bar[r],
                           total |-> RangeLen(Len(okw[r].id), Limit),
                           n |-> 0]]
            /\ pc' = [pc EXCEPT ![r] = "batch"]
            /\ UNCHANGED <<ikw, ipb, loops, i>>
       ELSE /\ ikw' = [ikw EXCEPT ![r] = InnerKwargs(okw[r], progress_bar[r])]
            /\ ipb' = [ipb EXCEPT ![r] = progress_bar[r]]
            /\ loops' = [loops EXCEPT ![r] = loops[r] + 1]
            /\ pc' = [pc EXCEPT ![r] = "list"]
            /\ UNCHANGED <<ids, okw, it, i, tbar, kwargs>>
    /\ UNCHANGED <<listing, returned, resource, wrapper, pulls, served, pending, progress_bar,
                   req, res, j, pbar, calls, out, ending>>

\* wrapper.py:93-96 and 109: the head of yield_all
Dispatch(r) ==
    /\ pc[r] = "dispatch"
    /\ IF NeedsSplit(okw[r])
       THEN /\ ids' = [ids EXCEPT ![r] = okw[r].id]
            /\ okw' = [okw EXCEPT ![r] = DictPop(okw[r], "id")]
            /\ it' = [it EXCEPT ![r] = 0]
            /\ tbar' = [tbar EXCEPT ![r] =
                          [disable |-> ~progress_bar[r],
                           total |-> RangeLen(Len(okw[r].id), Limit),
                           n |-> 0]]
            /\ pc' = [pc EXCEPT ![r] = "batch"]
            /\ UNCHANGED <<ikw, ipb, loops, i>>
       ELSE /\ ikw' = [ikw EXCEPT ![r] = InnerKwargs(okw[r], progress_bar[r])]
            /\ ipb' = [ipb EXCEPT ![r] = progress_bar[r]]
            /\ loops' = [loops EXCEPT ![r] = loops[r] + 1]
            /\ pc' = [pc EXCEPT ![r] = "list"]
            /\ UNCHANGED <<ids, okw, it, i, tbar>>
    /\ UNCHANGED <<listing, returned, resource, wrapper, pulls, kwargs, served, pending, progress_bar,
                   req, res, j, pbar, calls, out, ending>>

\* Mutant of BatchProgress: the caller's progress_bar is handed on to the
\* _yield_all call of every id batch.
BatchProgressForwarded(pb) == pb

\* wrapper.py:107  _yield_all(**kwargs, id=ids[i : i + 50]) passes no
\* progress_bar: the parameter takes its default, False (wrapper.py:46).
BatchProgress(pb) == FALSE

\* wrapper.py:97-107: one iteration of `for i in trange(0, len(ids), 50)`,
\* or the end of the loop and of the generator.
NextBatch(r) ==
    /\ pc[r] = "batch"
    /\ IF it[r] < Len(Trange(Len(ids[r]), Limit))
       THEN /\ it' = [it EXCEPT ![r] = it[r] + 1]
            /\ i' = [i EXCEPT ![r] = Trange(Len(ids[r]), Limit)[it[r] + 1]]
            /\ ikw' = [ikw EXCEPT ![r] =
                         InnerKwargs(DictSet(okw[r], "id", Slice(ids[r], i'[r])),
                                     BatchProgress(progress_bar[r]))]
            /\ ipb' = [ipb EXCEPT ![r] = BatchProgress(progress_bar[r])]
            /\ loops' = [loops EXCEPT ![r] = loops[r] + 1]
            /\ pc' = [pc EXCEPT ![r] = "list"]
            /\ UNCHANGED <<pending, ending>>
       ELSE /\ pc' = [pc EXCEPT ![r] = "done"]
            /\ ending' = [ending EXCEPT ![r] = "normal"]
            /\ pending' = [pending EXCEPT ![r] = FALSE]
            /\ UNCHANGED <<ikw, ipb, loops, it, i>>
    /\ UNCHANGED <<listing, returned, resource, wrapper, pulls, kwargs, served, progress_bar, okw, ids,
                   tbar, req, res, j, pbar, calls, out>>

\* wrapper.py:55-58: kwargs.update(maxResults=50); req = list(**kwargs);
\* the tqdm bar is opened.
ListRequest(r) ==
    /\ pc[r] = "list"
    /\ ikw' = [ikw EXCEPT ![r] = UpdateMaxResults(ikw[r])]
    /\ req' = [req EXCEPT ![r] = <<[params |-> ikw'[r], page |-> 1]>>]
    /\ calls' = [calls EXCEPT ![r] =
                   Append(calls[r], [op |-> "list", params |-> ikw'[r], page |-> 1])]
    /\ pbar' = [pbar EXCEPT ![r] = [disable |-> ~ipb[r], total |-> -1, n |-> 0]]
    /\ pc' = [pc EXCEPT ![r] = "execute"]
    /\ UNCHANGED <<listing, returned, resource, wrapper, pulls, kwargs, served, pending, progress_bar,
                   okw, ids, it, i, tbar, ipb, res, j, loops, out, ending>>

\* Mutant of ReturnInner: the end of one _yield_all call is the end of
\* yield_all on the splitting path too.
ReturnInnerEndsStream(r) ==
    /\ pc' = [pc EXCEPT ![r] = "done"]
    /\ ending' = [ending EXCEPT ![r] = "normal"]
    /\ pending' = [pending EXCEPT ![r] = FALSE]
    /\ UNCHANGED <<it, i, tbar>>

\* The return of _yield_all into yield_all (wrapper.py:107 / 109): on the
\* splitting path the trange loop goes on, otherwise yield_all ends.
ReturnInner(r) ==
    IF InSplit(r)
    THEN /\ UNCHANGED <<it, i>>
         /\ tbar' = [tbar EXCEPT ![r] = BarUpdate(tbar[r])]
         /\ pc' = [pc EXCEPT ![r] = "batch"]
         /\ UNCHANGED <<pending, ending>>
    ELSE /\ pc' = [pc EXCEPT ![r] = "done"]
         /\ ending' = [ending EXCEPT ![r] = "normal"]
         /\ pending' = [pending EXCEPT ![r] = FALSE]
         /\ UNCHANGED <<it, i, tbar>>

\* The answers the remote may give to the request for page p of batch b:
\* the one it gave before, or any answer within the bounds.
Answers(b, p) ==
    LET known == {s \in served : s.b = b /\ s.p = p}
        budget == Cardinality({s \in served : s.more}) < MaxExtraPages
    IN  IF known # {} THEN known
        ELSE {[b |-> b, p |-> p, status |-> 200, n |-> n, more |-> m] :
                  n \in ItemCounts, m \in {x \in BOOLEAN : x => budget}}
             \cup {[b |-> b, p |-> p, status |-> st, n |-> 0, more |-> FALSE] :
                  st \in Statuses \ {200}}

\* Mutant of IsNotFound: every HttpError is swallowed.
IsNotFoundAny(status) == status >= 400

\* Mutant of IsNotFound: no HttpError is swallowed.
IsNotFoundNever(status) == FALSE

\* wrapper.py:71  e.status_code == 404
IsNotFound(status) == status = NotFound

\* wrapper.py:59-63 and 70-74: res = req.execute() with its three outcomes
Execute(r) ==
    /\ pc[r] = "execute"
    /\ req[r] # <<>>
    /\ \E s \in Answers(Batch(r), req[r][1].page) :
         /\ served' = served \cup {s}
         /\ calls' = [calls EXCEPT ![r] =
                        Append(calls[r], [op |-> "execute",
                                          params |-> req[r][1].params,
                                          page |-> req[r][1].page])]
         /\ IF s.status = 200
            THEN /\ res' = [res EXCEPT ![r] =
                              <<[items |-> PageItems(s.b, s.p, s.n),
                                 totalResults |-> TotalResults(s.p, s.n, s.more),
                                 more |-> s.more]>>]
                 /\ pbar' = [pbar EXCEPT ![r] =
                               BarUpdate([pbar[r] EXCEPT !.total =
                                   Ceil(res'[r][1].totalResults, Limit)])]
                 /\ j' = [j EXCEPT ![r] = 1]
                 /\ pc' = [pc EXCEPT ![r] = "items"]
                 /\ UNCHANGED <<pending, ending, it, i, tbar>>
            ELSE IF IsNotFound(s.status)
            THEN /\ ReturnInner(r)
                 /\ UNCHANGED <<res, pbar, j>>
            ELSE /\ pc' = [pc EXCEPT ![r] = "raised"]
                 /\ ending' = [ending EXCEPT ![r] = "error"]
                 /\ pending' = [pending EXCEPT ![r] = FALSE]
                 /\ UNCHANGED <<res, pbar, j, it, i, tbar>>
    /\ UNCHANGED <<listing, returned, resource, wrapper, pulls, kwargs, progress_bar, okw, ids, ikw, ipb,
                   req, loops, out>>

\* Mutant of YieldItem: only the first item of a page is yielded
\* (yield res["items"][0] instead of the loop over the items).
YieldFirstOnly(r) ==
    /\ pc[r] = "items"
    /\ j[r] <= Len(res[r][1].items)
    /\ out' = [out EXCEPT ![r] = Append(out[r], res[r][1].items[j[r]])]
    /\ j' = [j EXCEPT ![r] = Len(res[r][1].items) + 1]
    /\ pending' = [pending EXCEPT ![r] = FALSE]
    /\ pc' = [pc EXCEPT ![r] = "suspended"]
    /\ UNCHANGED <<listing, returned, resource, wrapper, pulls, kwargs, served, progress_bar, okw, ids, it, i,
                   tbar, ikw, ipb, req, res, pbar, loops, calls, ending>>

\* wrapper.py:65-66: `yield item` hands one item to the consumer and
\* suspends the generator.
YieldItem(r) ==
    /\ pc[r] = "items"
    /\ j[r] <= Len(res[r][1].items)
    /\ out' = [out EXCEPT ![r] = Append(out[r], res[r][1].items[j[r]])]
    /\ j' = [j EXCEPT ![r] = j[r] + 1]
    /\ pending' = [pending EXCEPT ![r] = FALSE]
    /\ pc' = [pc EXCEPT ![r] = "suspended"]
    /\ UNCHANGED <<listing, returned, resource, wrapper, pulls, kwargs, served, progress_bar, okw, ids, it, i,
                   tbar, ikw, ipb, req, res, pbar, loops, calls, ending>>

\* Mutant of ListNextResult: without a continuation the same request is
\* handed back instead of None.
ListNextRepeats(rq, rs) ==
    IF rs.more THEN <<[params |-> rq.params, page |-> rq.page + 1]>> ELSE <<rq>>

\* Resource.list_next(req, res): None when the page has no continuation
ListNextResult(rq, rs) ==
    IF rs.more THEN <<[params |-> rq.params, page |-> rq.page + 1]>> ELSE <<>>

\* Mutant of ItemsExhausted: the end of the loop is seen only on a page
\* that has items.
ItemsExhaustedNonEmpty(r) ==
    j[r] > Len(res[r][1].items) /\ Len(res[r][1].items) > 0

\* Mutant of ItemsExhausted: the loop over the items may be left at any item.
ItemsExhaustedEarly(r) == TRUE

\* wrapper.py:65  the end of `for item in res["items"]`
ItemsExhausted(r) == j[r] > Len(res[r][1].items)

\* wrapper.py:68 and 59: req = list_next(req, res); `while req is not None`
ListNext(r) ==
    /\ pc[r] = "items"
    /\ ItemsExhausted(r)
    /\ req' = [req EXCEPT ![r] = ListNextResult(req[r][1], res[r][1])]
    /\ calls' = [calls EXCEPT ![r] =
                   Append(calls[r], [op |-> "list_next",
                                     params |-> req[r][1].params,
                                     page |-> req[r][1].page])]
    /\ IF req'[r] = <<>>
       THEN ReturnInner(r)
       ELSE /\ pc' = [pc EXCEPT ![r] = "execute"]
            /\ UNCHANGED <<pending, ending, it, i, tbar>>
    /\ UNCHANGED <<listing, returned, resource, wrapper, pulls, kwargs, served, progress_bar, okw, ids,
                   ikw, ipb, res, j, pbar, loops, out>>

Next ==
    \/ Construct
    \/ CallYieldAll(1)
    \/ CallListAll(1)
    \/ ListAllReturn(1)
    \/ Pull(1)
    \/ Stop(1)
    \/ Dispatch(1)
    \/ NextBatch(1)
    \/ ListRequest(1)
    \/ Execute(1)
    \/ YieldItem(1)
    \/ ListNext(1)

Spec == Init /\ [][Next]_vars

NextPair ==
    \/ Construct
    \/ \E r \in Runs : CallYieldAll(r)
    \/ \E r \in Runs : Pull(r)
    \/ \E r \in Runs : Stop(r)
    \/ \E r \in Runs : Dispatch(r)
    \/ \E r \in Runs : NextBatch(r)
    \/ \E r \in Runs : ListRequest(r)
    \/ \E r \in Runs : Execute(r)
    \/ \E r \in Runs : YieldItem(r)
    \/ \E r \in Runs : ListNext(r)

SpecPair == Init /\ [][NextPair]_vars

\* Two invocations of list_all, one after the other.
NextRepeat ==
    \/ Construct
    \/ \E r \in Runs : CallListAll(r)
    \/ \E r \in Runs : ListAllReturn(r)
    \/ \E r \in Runs : Pull(r)
    \/ \E r \in Runs : Dispatch(r)
    \/ \E r \in Runs : NextBatch(r)
    \/ \E r \in Runs : ListRequest(r)
    \/ \E r \in Runs : Execute(r)
    \/ \E r \in Runs : YieldItem(r)
    \/ \E r \in Runs : ListNext(r)

SpecRepeat == Init /\ [][NextRepeat]_vars

\* One step of the generator's own code, from where the consumer's next()
\* resumed it towards its next yield, its end or its exception.
GeneratorStep(r) ==
    \/ Dispatch(r)
    \/ NextBatch(r)
    \/ ListRequest(r)
    \/ Execute(r)
    \/ YieldItem(r)
    \/ ListNext(r)

\* One invocation whose consumer never stops early: it pulls again after
\* every item (the for loop of main.py:76 without its break, or list()).
NextLive ==
    \/ Construct
    \/ CallYieldAll(1)
    \/ CallListAll(1)
    \/ ListAllReturn(1)
    \/ Pull(1)
    \/ Dispatch(1)
    \/ NextBatch(1)
    \/ ListRequest(1)
    \/ Execute(1)
    \/ YieldItem(1)
    \/ ListNext(1)

\* A resumed generator runs on (the interpreter executes its next
\* statement, the remote answers every request), and the consumer that
\* holds a suspended generator pulls again.
SpecLive ==
    /\ Init
    /\ [][NextLive]_vars
    /\ WF_vars(GeneratorStep(1))
    /\ WF_vars(Pull(1))
    /\ WF_vars(ListAllReturn(1))

TypeOK ==
    /\ wrapper \in {"none", "ok", "ValueError"}
    /\ \A r \in Runs :
         pc[r] \in {"none", "created", "dispatch", "batch", "list", "execute",
                    "items", "suspended", "done", "raised", "closed"}

\* ------------------------------------------------------------ observations
Last(seq) == seq[Len(seq)]

\* The calls of one kind a run made on the resource, in order.
CallsOf(r, op) == SelectSeq(calls[r], LAMBDA c : c.op = op)

Executed(r) == CallsOf(r, "execute")
Listed(r) == CallsOf(r, "list")

\* The answer the remote gave for page p of batch b.
ServedAt(b, p) == CHOOSE s \in served : s.b = b /\ s.p = p

\* The successful pages of batch b the remote has served (they are 1..k).
OkPages(b) == Cardinality({s \in served : s.b = b /\ s.status = 200})

\* The items of pages 1..k of batch b, in page order and within-page order.
RECURSIVE ConcatPages(_, _)
ConcatPages(b, k) ==
    IF k = 0 THEN <<>>
    ELSE ConcatPages(b, k - 1) \o PageItems(b, k, ServedAt(b, k).n)

\* The items of the successful pages of batches 1..b, in batch order.
RECURSIVE ConcatBatches(_)
ConcatBatches(b) ==
    IF b = 0 THEN <<>>
    ELSE ConcatBatches(b - 1) \o ConcatPages(b, OkPages(b))

\* The `id` arguments of the first k list calls of run r, concatenated.
RECURSIVE ConcatListIds(_, _)
ConcatListIds(r, k) ==
    IF k = 0 THEN <<>>
    ELSE ConcatListIds(r, k - 1) \o Listed(r)[k].params.id

\* The caller passed more than 50 identifiers.
LongIds == "id" \in DOMAIN kwargs /\ Len(kwargs.id) > 50

NoError == \A s \in served : s.status = 200

\* C1 (Completeness): when yield_all was drained to its normal end without
\* id splitting and the remote served its N >= 1 pages without error, the
\* consumer got exactly the items of page 1..N, in page order and in
\* within-page order; the N pages were requested once each, in order, only
\* the last one has no continuation, and the run's last call is the
\* list_next on page N (the first that returns None).
C1_Completeness ==
    (pc[1] = "done" /\ ~LongIds /\ NoError) =>
        LET N == Cardinality(served) IN
        /\ N >= 1
        /\ out[1] = ConcatPages(1, N)
        /\ Len(Executed(1)) = N
        /\ \A p \in 1..N : /\ Executed(1)[p].page = p
                           /\ ServedAt(1, p).more = (p < N)
        /\ Len(CallsOf(1, "list_next")) = N
        /\ Last(calls[1]).op = "list_next" /\ Last(calls[1]).page = N
        /\ ending[1] = "normal"

C1_Witness ==
    /\ pc[1] = "done" /\ ~LongIds /\ NoError
    /\ Cardinality(served) = 2
    /\ Len(out[1]) >= 4

\* The number of id batches of the caller's `id` list.
NumBatches == Ceil(Len(kwargs.id), Limit)

\* C2 (Chunking correctness): with an `id` list of length n > 50, the `id`
\* arguments of the list calls, in call order, are consecutive pieces of
\* the list: each but possibly the last has exactly 50 entries, none is
\* empty, together they are a prefix of the list at any time, and after the
\* full drain there are ceil(n / 50) of them and together they are the list.
C2_Chunking ==
    LongIds =>
        LET L == Listed(1)
            n == Len(kwargs.id) IN
        /\ Len(L) <= NumBatches
        /\ \A k \in 1..Len(L) :
             /\ "id" \in DOMAIN L[k].params
             /\ Len(L[k].params.id) = IF k < NumBatches THEN Limit
                                      ELSE n - Limit * (NumBatches - 1)
             /\ Len(L[k].params.id) >= 1
        /\ ConcatListIds(1, Len(L)) =
               SubSeq(kwargs.id, 1, Len(ConcatListIds(1, Len(L))))
        /\ pc[1] = "done" => /\ Len(L) = NumBatches
                             /\ ConcatListIds(1, Len(L)) = kwargs.id

C2_Witness ==
    /\ LongIds
    /\ pc[1] = "done"
    /\ Len(Listed(1)) = 3
    /\ Len(kwargs.id) % Limit # 0

\* C3 (Batch order preservation): on the splitting path the items the
\* consumer got never step back to an earlier batch (no item of a batch
\* after an item of a later one, no interleaving), at any time they are a
\* prefix of the per-batch sub-streams put together in batch order, and
\* after the full drain every batch was requested and they are exactly
\* that concatenation.
C3_BatchOrder ==
    LongIds =>
        /\ \A x \in 1..Len(out[1]) : \A y \in x..Len(out[1]) :
             out[1][x][1] <= out[1][y][1]
        /\ out[1] = SubSeq(ConcatBatches(NumBatches), 1, Len(out[1]))
        /\ pc[1] = "done" =>
             /\ \A b \in 1..NumBatches : \E s \in served : s.b = b /\ s.p = 1
             /\ out[1] = ConcatBatches(NumBatches)

C3_Witness ==
    /\ LongIds
    /\ pc[1] = "done"
    /\ NumBatches = 3
    /\ \E x \in 1..Len(out[1]) : out[1][x][1] = 1
    /\ \E x \in 1..Len(out[1]) : out[1][x][1] = 2
    /\ \E x \in 1..Len(out[1]) : out[1][x][1] = 3 /\ out[1][x][2] = 2

\* The items of every successful page served so far, in request order.
AllServedItems ==
    IF LongIds THEN ConcatBatches(NumBatches)
    ELSE ConcatPages(1, OkPages(1))

\* C4 (Other-error propagation): once a page request has failed with an
\* error that is not a 404, the consumer's pull has ended with that error,
\* the consumer holds exactly the items of the pages served before it, and
\* the failed request is the last call ever made on the resource: no retry,
\* no later page, no later id batch.
C4_ErrorPropagation ==
    \A s \in served : s.status = 500 =>
        /\ pc[1] = "raised"
        /\ ending[1] = "error"
        /\ ~pending[1]
        /\ out[1] = AllServedItems
        /\ Last(calls[1]).op = "execute"
        /\ Last(calls[1]).page = s.p
        /\ Len(Listed(1)) = s.b
        /\ Cardinality({q \in served : q.status = 500}) = 1

C4_Witness ==
    /\ \E s \in served : s.status = 500 /\ s.b = 2 /\ s.p = 2
    /\ Len(out[1]) >= 2
    /\ NumBatches = 3

\* C5 (404-is-empty): without id splitting, when the first page request
\* fails with a 404 the stream has ended normally with zero items, no
\* exception reached the consumer, and the failed request (after the list
\* call that created it) is the only one ever made.
C5_NotFoundIsEmpty ==
    (~LongIds /\ \E s \in served : s.b = 1 /\ s.p = 1 /\ s.status = NotFound) =>
        /\ pc[1] = "done"
        /\ ending[1] = "normal"
        /\ ~pending[1]
        /\ out[1] = <<>>
        /\ Len(calls[1]) = 2
        /\ calls[1][1].op = "list" /\ calls[1][2].op = "execute"

C5_Witness ==
    /\ ~LongIds
    /\ \E s \in served : s.b = 1 /\ s.p = 1 /\ s.status = NotFound
    /\ pulls[1] = 1

\* The positions at which a generator runs (it is neither not yet started,
\* nor suspended at a yield, nor over).
Running(r) == pc[r] \in {"dispatch", "batch", "list", "execute", "items"}

\* C6 (Pull-driven laziness and early termination): nothing is requested
\* before the first pull; the generator runs, and calls the resource, only
\* while a pull of the consumer is pending; and whenever it is suspended
\* after an item, or was abandoned there by the consumer, the last call
\* made is the request of that item's page in that item's batch: no later
\* page and no later batch has been asked for, at whatever item the
\* consumer stops.
C6_Laziness ==
    /\ [](pc[1] \in {"none", "created"} => calls[1] = <<>> /\ served = {})
    /\ [](Running(1) => pending[1])
    /\ [][calls'[1] # calls[1] => pending[1]]_vars
    /\ []((pc[1] \in {"suspended", "closed"} /\ out[1] # <<>>) =>
            /\ ~pending[1]
            /\ Last(calls[1]).op = "execute"
            /\ Last(calls[1]).page = Last(out[1])[2]
            /\ Len(Listed(1)) = Last(out[1])[1]
            /\ \A s \in served : \/ s.b < Last(out[1])[1]
                                 \/ s.b = Last(out[1])[1] /\ s.p <= Last(out[1])[2])
    /\ [][pc[1] = "closed" => calls'[1] = calls[1] /\ served' = served]_vars

C6_Witness ==
    /\ pc[1] = "closed"
    /\ LongIds
    /\ Len(out[1]) = 1
    /\ ServedAt(1, 1).more
    /\ ServedAt(1, 1).n = 2

\* The id batch number b of the caller's `id` list.
IdBatch(b) ==
    SubSeq(kwargs.id, 50 * (b - 1) + 1, Min(50 * b, Len(kwargs.id)))

\* The parameters the caller passed, with `id` replaced by the batch that
\* the x-th call of run r is about (the batch of the last list call).
CallerParams(r, x) ==
    IF LongIds
    THEN DictSet(kwargs, "id",
                 IdBatch(Len(SelectSeq(SubSeq(calls[r], 1, x),
                                       LAMBDA c : c.op = "list"))))
    ELSE kwargs

\* C7 as stated (Parameter fidelity): every call on the resource carries
\* exactly the caller's parameters, `id` alone replaced by the id batch.
C7_Original ==
    \A x \in 1..Len(calls[1]) : calls[1][x].params = CallerParams(1, x)

\* C7 amended: every call on the resource carries the caller's parameters
\* with `id` replaced by the id batch and with maxResults set to 50 (added
\* when the caller did not pass it, overwritten when the caller did);
\* nothing else is added, removed or overwritten.
C7_ParamsButMaxResults ==
    \A x \in 1..Len(calls[1]) :
        calls[1][x].params = DictSet(CallerParams(1, x), "maxResults", 50)

C7_Witness ==
    /\ LongIds
    /\ pc[1] = "done"
    /\ Len(Executed(1)) >= 3
    /\ Len(out[1]) >= 2

\* C8 (Chunking no-op): with `id` absent or of length <= 50 (0 and 50
\* included) yield_all never enters its splitting branch, calls _yield_all
\* at most once (exactly once by the end), and every call on the resource
\* carries `id` exactly as the caller supplied it, or no `id` if none was
\* supplied.
C8_NoSplit ==
    ~LongIds =>
        /\ ~InSplit(1)
        /\ loops[1] <= 1
        /\ Len(Listed(1)) <= 1
        /\ pc[1] \in {"done", "raised", "suspended", "closed"} /\ pulls[1] > 0
             => loops[1] = 1
        /\ \A x \in 1..Len(calls[1]) :
             IF "id" \in DOMAIN kwargs
             THEN /\ "id" \in DOMAIN calls[1][x].params
                  /\ calls[1][x].params.id = kwargs.id
             ELSE "id" \notin DOMAIN calls[1][x].params

C8_Witness ==
    /\ "id" \in DOMAIN kwargs
    /\ Len(kwargs.id) = 50
    /\ pc[1] = "done"
    /\ Len(Executed(1)) = 2

\* C9 (Fail-fast construction): a Wrapper exists only for a resource whose
\* list and list_next are both callable; for any other resource the
\* construction has failed with ValueError, and then no generator was ever
\* created and nothing was requested.
C9_FailFast ==
    LET both == resource.list = "callable" /\ resource.list_next = "callable" IN
    /\ wrapper = "ok" => both
    /\ (wrapper # "none" /\ ~both) => wrapper = "ValueError"
    /\ wrapper = "ValueError" =>
         /\ \A r \in Runs : pc[r] = "none" /\ calls[r] = <<>>
         /\ served = {}
    /\ \A r \in Runs : pc[r] # "none" => wrapper = "ok"

C9_Witness ==
    /\ wrapper = "ValueError"
    /\ resource.list = "callable"
    /\ resource.list_next = "noncallable"

\* C10 (Progress non-interference): take two invocations with the same
\* parameters, the same remote and any two values of progress_bar.  Once
\* the second consumer has completed as many pulls as the first one did,
\* it holds the same items, the same calls were made on the resource, and
\* the stream has ended in the same way (normally, with the error, or not
\* yet).
C10_NonInterference ==
    (Finished(1) /\ pc[2] # "none" /\ pulls[2] = pulls[1] /\ ~pending[2]) =>
        /\ out[2] = out[1]
        /\ calls[2] = calls[1]
        /\ ending[2] = ending[1]
        /\ pc[1] = "closed" => pc[2] \in {"created", "suspended", "closed"}
        /\ pc[1] # "closed" => pc[2] = pc[1]

C10_Witness ==
    /\ Finished(1) /\ pc[2] = "done"
    /\ progress_bar[1] # progress_bar[2]
    /\ LongIds
    /\ Len(out[2]) >= 2
    /\ Len(Executed(2)) >= 3

\* C11 (collectAll determinism): list_all returns only after the generator
\* has ended normally, having pulled once per item and once more for the
\* end (one full drain), and the list it returns is the sequence of items
\* yield_all handed out, in the same order; it returns nothing when the
\* generator raised.  A second list_all with the same parameters over the
\* same remote ends the same way and returns the identical list.
C11_ListAllDeterministic ==
    /\ \A r \in Runs :
         /\ returned[r] # <<>> =>
              /\ pc[r] = "done"
              /\ returned[r][1] = out[r]
              /\ pulls[r] = Len(out[r]) + 1
              /\ out[r] = AllServedItems
         /\ (listing[r] /\ pc[r] = "raised") => returned[r] = <<>>
    /\ (returned[1] # <<>> /\ returned[2] # <<>>) => returned[2] = returned[1]
    /\ (Finished(1) /\ Finished(2)) =>
         /\ pc[2] = pc[1]
         /\ out[2] = out[1]
         /\ calls[2] = calls[1]

C11_Witness ==
    /\ returned[1] # <<>> /\ returned[2] # <<>>
    /\ LongIds
    /\ Len(returned[2][1]) >= 4
    /\ \E x \in 1..Len(returned[2][1]) : returned[2][1][x][1] = 3

\* The batch the k-th call of run r belongs to: the list calls up to it.
CallBatch(r, k) ==
    Len(SelectSeq(SubSeq(calls[r], 1, k), LAMBDA c : c.op = "list"))

\* The requests run r has created and not yet executed: one per list call
\* and one per list_next call on a page with a continuation, less the
\* execute calls.
Outstanding(r) ==
    Len(Listed(r))
    + Cardinality({k \in 1..Len(calls[r]) :
                     /\ calls[r][k].op = "list_next"
                     /\ ServedAt(CallBatch(r, k), calls[r][k].page).more})
    - Len(Executed(r))

\* C12 (page ordering, one request in flight): a request exists unexecuted
\* only between its creation and its execute, never two at a time; at that
\* time the consumer holds every item of every page served before it.  An
\* execute call directly follows the list call (page 1) or the list_next
\* call on the page before its own, and a list_next call directly follows
\* the execute of its page.  At any time the items handed out are a prefix
\* of the served pages' items in request order, and what is missing are the
\* remaining items of the page last served.
C12_OnePageAtATime ==
    /\ Outstanding(1) \in {0, 1}
    /\ Outstanding(1) = 1 <=> pc[1] = "execute"
    /\ pc[1] = "execute" => out[1] = AllServedItems
    /\ \A k \in 1..Len(calls[1]) :
         LET c == calls[1][k] IN
         /\ c.op = "execute" =>
              /\ k > 1
              /\ calls[1][k - 1].op \in {"list", "list_next"}
              /\ calls[1][k - 1].op = "list" => c.page = 1
              /\ calls[1][k - 1].op = "list_next" =>
                   c.page = calls[1][k - 1].page + 1
         /\ c.op = "list_next" =>
              /\ k > 1
              /\ calls[1][k - 1].op = "execute"
              /\ calls[1][k - 1].page = c.page
         /\ (c.op = "list" /\ k > 1) =>
              calls[1][k - 1].op \in {"execute", "list_next"}
    /\ out[1] = SubSeq(AllServedItems, 1, Len(out[1]))
    /\ pc[1] \in {"items", "suspended"} =>
         out[1] \o SubSeq(res[1][1].items, j[1], Len(res[1][1].items))
             = AllServedItems

C12_Witness ==
    /\ pc[1] = "execute"
    /\ req[1][1].page = 2
    /\ Len(out[1]) = MaxItems
    /\ Len(calls[1]) = 3

\* The number of _yield_all calls of a full drain.
BatchCount == IF LongIds THEN NumBatches ELSE 1

\* The execute calls of run r that belong to batch b.
ExecutedIn(r, b) ==
    {k \in 1..Len(calls[r]) : calls[r][k].op = "execute" /\ CallBatch(r, k) = b}

\* C13 (exhaustion is permanent): after a list_next call on a page without
\* continuation (the one that returns None) no later call of the run
\* belongs to the same batch: neither an execute nor a list_next, the next
\* call if any is the list call of the next batch.  No page of a batch is
\* executed twice.  After a full drain without error every batch has as
\* many execute calls as the remote served pages for it: the pages 1..k,
\* of which only page k has no continuation.
C13_ExhaustionPermanent ==
    /\ \A k \in 1..Len(calls[1]) :
         (/\ calls[1][k].op = "list_next"
          /\ ~ServedAt(CallBatch(1, k), calls[1][k].page).more) =>
             /\ \A l \in (k + 1)..Len(calls[1]) : CallBatch(1, l) > CallBatch(1, k)
             /\ k < Len(calls[1]) => calls[1][k + 1].op = "list"
             /\ k = Len(calls[1]) => pc[1] \notin {"execute", "items", "suspended"}
    /\ Len(Executed(1)) = Cardinality(served)
    /\ (pc[1] = "done" /\ NoError) =>
         \A b \in 1..BatchCount :
            LET pages == {s \in served : s.b = b}
                N == Cardinality(pages) IN
            /\ N >= 1
            /\ Cardinality(ExecutedIn(1, b)) = N
            /\ \A s \in pages : s.p \in 1..N /\ s.more = (s.p < N)

C13_Witness ==
    /\ pc[1] = "done" /\ NoError /\ LongIds
    /\ BatchCount >= 2
    /\ Cardinality(ExecutedIn(1, 1)) = 2
    /\ Cardinality(ExecutedIn(1, 2)) = 1

\* The id batches run r has finished: the steps its batch-level bar took.
BatchesDone(r) == IF pc[r] \in {"batch", "done"} THEN it[r] ELSE it[r] - 1

\* Batch-level progress of run 1 on the splitting path: the trange bar is
\* shown, sized to ceil(len(ids) / 50) steps, and has taken one step per
\* finished id batch.
BatchLevelProgress ==
    /\ ~tbar[1].disable
    /\ tbar[1].total = NumBatches
    /\ tbar[1].n = BatchesDone(1)

\* Page-level progress of run 1 for batch b: the page bar is shown and has
\* taken one step per successful page request of the batch.
PageLevelProgress(b) ==
    /\ ~pbar[1].disable
    /\ pbar[1].n = OkPages(b)
    /\ pbar[1].n > 0 =>
         pbar[1].total = Ceil(res[1][1].totalResults, Limit)

\* C14 as stated (nested progress): with more than 50 ids and progress
\* reporting enabled there is a batch-level step per id batch and, inside
\* each batch, a page-level step per successful page request.
C14_Original ==
    (LongIds /\ progress_bar[1] /\ InSplit(1)) =>
        /\ BatchLevelProgress
        /\ pc[1] \in {"execute", "items", "suspended"} => PageLevelProgress(it[1])

\* C14 (progress on the id-splitting path, as the code has it): with more
\* than 50 ids and progress reporting enabled, progress is reported at the
\* batch level only: one step per finished id batch on a bar sized to
\* ceil(len(ids) / 50) steps; the page bar of every batch is disabled and
\* takes no step.  Page-level steps, one per successful page request, are
\* reported on the path without splitting.
C14_BatchProgressOnly ==
    /\ (LongIds /\ progress_bar[1] /\ InSplit(1)) =>
         /\ BatchLevelProgress
         /\ pbar[1].disable
         /\ pbar[1].n = 0
         /\ ~ipb[1]
    /\ (~LongIds /\ progress_bar[1]
          /\ pc[1] \in {"execute", "items", "suspended"}) =>
         PageLevelProgress(1)

C14_Witness ==
    /\ LongIds /\ progress_bar[1]
    /\ pc[1] = "done"
    /\ tbar[1].n = 3
    /\ OkPages(1) = 2
    /\ Len(out[1]) >= 4

\* The position in calls[r] of the execute call for page p of batch b.
ExecuteOf(r, b, p) ==
    CHOOSE k \in ExecutedIn(r, b) : calls[r][k].page = p

\* C15 (404 after the first page): once a request for a page p > 1 has got
\* a 404, the page fetch loop of its batch is over: the batch has no later
\* page and no later execute or list_next call, the call after the failed
\* execute, if any, is the list call of the next id batch, and the 404 alone
\* never makes the run end with an error.  Without id splitting the stream
\* has then ended normally, like a complete one, and the consumer holds
\* exactly the items of pages 1..p-1; the failed execute is the run's last
\* call.
C15_LateNotFound ==
    \A s \in served :
       (s.status = NotFound /\ s.p > 1) =>
          LET k == ExecuteOf(1, s.b, s.p) IN
          /\ \A t \in served : t.b = s.b => t.p <= s.p
          /\ \A l \in ExecutedIn(1, s.b) : l <= k
          /\ \A l \in (k + 1)..Len(calls[1]) : CallBatch(1, l) > s.b
          /\ k < Len(calls[1]) => calls[1][k + 1].op = "list"
          /\ pc[1] = "raised" => \E t \in served : t.status \notin {200, NotFound}
          /\ ~LongIds =>
               /\ pc[1] = "done"
               /\ ending[1] = "normal"
               /\ ~pending[1]
               /\ out[1] = ConcatPages(1, s.p - 1)
               /\ k = Len(calls[1])

C15_Witness ==
    /\ ~LongIds
    /\ pc[1] = "done"
    /\ \E s \in served : s.status = NotFound /\ s.p = 3
    /\ Len(out[1]) = 2 * MaxItems

\* C16 (404 inside an id batch): on the splitting path a 404 on a request
\* of batch b ends the page fetch loop of batch b and nothing else.  While
\* that failed execute is the run's last call and b is not the last batch,
\* the generator is still running the consumer's pull and is on its way to
\* the next batch; the call after it is the list call for the ids of batch
\* b + 1.  The 404 alone never makes the run end with an error, and when
\* the run has ended normally every batch was requested, in order, and the
\* consumer holds the items of all batches, those after b included.
C16_NotFoundEndsBatchOnly ==
    LongIds =>
       \A s \in served :
          s.status = NotFound =>
             LET k == ExecuteOf(1, s.b, s.p) IN
             /\ (k = Len(calls[1]) /\ s.b < NumBatches) =>
                  /\ pc[1] \in {"batch", "list"}
                  /\ pending[1]
                  /\ ending[1] # "normal"
             /\ k < Len(calls[1]) =>
                  /\ s.b < NumBatches
                  /\ calls[1][k + 1].op = "list"
                  /\ calls[1][k + 1].params.id = IdBatch(s.b + 1)
             /\ pc[1] = "raised" =>
                  \E t \in served : t.status \notin {200, NotFound}
             /\ pc[1] = "done" =>
                  /\ ending[1] = "normal"
                  /\ it[1] = NumBatches
                  /\ Len(Listed(1)) = NumBatches
                  /\ \A b \in 1..NumBatches :
                       /\ Listed(1)[b].params.id = IdBatch(b)
                       /\ \E t \in served : t.b = b /\ t.p = 1
                  /\ out[1] = ConcatBatches(NumBatches)

C16_Witness ==
    /\ LongIds
    /\ pc[1] = "done"
    /\ NumBatches = 3
    /\ \E s \in served : s.status = NotFound /\ s.b = 1 /\ s.p = 2
    /\ \E s \in served : s.status = NotFound /\ s.b = 2 /\ s.p = 1
    /\ \E x \in 1..Len(out[1]) : out[1][x][1] = 1
    /\ \E x \in 1..Len(out[1]) : out[1][x][1] = 3

\* C17 (termination): with a remote that serves finitely many pages per
\* batch and a consumer that keeps pulling, every pull returns (with an
\* item, the end of the stream or an error), a generator that was created
\* ends (normally or with an error), and list_all returns or raises; the
\* run executes at most one request per batch and per page that has a
\* continuation.  Pages with an empty `items` list are among the pages.
C17_Termination ==
    /\ pending[1] ~> ~pending[1]
    /\ pc[1] = "created" ~> pc[1] \in {"done", "raised"}
    /\ (listing[1] /\ pc[1] = "created") ~>
           (returned[1] # <<>> \/ pc[1] = "raised")
    /\ [](Len(Executed(1)) <=
             BatchCount + Cardinality({s \in served : s.more}))
    /\ [](pc[1] \in {"done", "raised"} => ~pending[1])

C17_Witness ==
    /\ pc[1] = "done"
    /\ LongIds
    /\ \E s \in served : s.status = 200 /\ s.n = 0 /\ s.more /\ s.p = 1
    /\ \E s \in served : s.status = 200 /\ s.n = 0 /\ ~s.more
    /\ Len(out[1]) >= MaxItems
    /\ Len(Executed(1)) >= 4

====
